---- MODULE Spec2Model ----
(***************************************************************************)
(* Duck Machine DM2019W CPU (cpu.py): the ALU, the fetch / decode /        *)
(* execute cycle CPU.step and the run loop CPU.run, over a register bank   *)
(* of 16 cells and a flat memory.                                          *)
(*                                                                         *)
(* cpu.py imports its collaborators from the modules instr_format, memory, *)
(* register and mvc. They are modelled at the interface the specification  *)
(* gives them (sections 3 and 6), under the headings that name them.       *)
(***************************************************************************)
EXTENDS Integers, Sequences, FiniteSets, TLC

VARIABLES
    registers,    \* CPU.registers: the value held by each of the 16 cells
    memory,       \* the Memory the CPU is connected to: address -> word
    condition,    \* CPU.condition: the current condition flag (a bit mask)
    halted,       \* CPU.halted
    published,    \* the events notify_all delivered during the latest step()
    ctl,          \* where control is: "idle" (no call active), "run" (inside
                  \* CPU.run's loop) or "fault" (an exception left the CPU)
    from_addr,    \* run()'s parameter from_addr (-1 while no run() is active)
    single_step,  \* run()'s parameter single_step
    step_count,   \* run()'s local step_count
    prompt,       \* the step number of the latest prompt run() showed, or -1
    last,         \* the operation that produced this state
    alu_in,       \* arguments of a direct call of ALU.exec
    alu_out       \* how that call ended (empty until it has ended)

vars == <<registers, memory, condition, halted, published, ctl, from_addr,
          single_step, step_count, prompt, last, alu_in, alu_out>>

cpuVars == <<registers, memory, condition, halted, published, ctl, from_addr,
             single_step, step_count, prompt, last>>

-----------------------------------------------------------------------------
(* Bounds of the model *)

\* memory holds the addresses 0 .. MemSize-1
MemSize == 4
\* arithmetic results are explored up to this magnitude
MaxVal == 5
\* cycles explored inside one run()
MaxSteps == 4
\* magnitude of the operands given to ALU.exec when it is explored on its own
MaxOperand == 6
\* size of the memory the end-to-end scenario runs on (it stores to address 100)
ScenarioMemSize == 104

-----------------------------------------------------------------------------
(* instr_format: OpCode, CondFlag, Instruction, decode *)

OpCodes == {"HALT", "LOAD", "STORE", "ADD", "SUB", "MUL", "DIV"}

\* the number the instruction word carries for each operation code
OpNumber(op) ==
    CASE op = "HALT"  -> 0
      [] op = "LOAD"  -> 1
      [] op = "STORE" -> 2
      [] op = "ADD"   -> 3
      [] op = "SUB"   -> 5
      [] op = "MUL"   -> 6
      [] op = "DIV"   -> 7

\* CondFlag: a bit-flag enumeration
CondFlag_M == 1
CondFlag_Z == 2
CondFlag_P == 4
CondFlag_V == 8
CondFlag_NEVER == 0
CondFlag_ALWAYS == 15

\* bit i (0..3) of a condition mask
FlagBit(f, i) == (f \div (2 ^ i)) % 2

\* CondFlag.__and__: the bitwise AND of two condition masks
FlagAnd(f, g) ==
      (FlagBit(f, 0) * FlagBit(g, 0))
    + (FlagBit(f, 1) * FlagBit(g, 1)) * 2
    + (FlagBit(f, 2) * FlagBit(g, 2)) * 4
    + (FlagBit(f, 3) * FlagBit(g, 3)) * 8

\* bits lo .. lo+width-1 of a word (Python's (word >> lo) & mask)
BitField(word, lo, width) == (word \div (2 ^ lo)) % (2 ^ width)

\* the same bits read as a two's-complement number
BitFieldSigned(word, lo, width) ==
    LET raw == BitField(word, lo, width)
    IN  IF raw >= 2 ^ (width - 1) THEN raw - 2 ^ width ELSE raw

\* Instruction.encode: the word holding the given fields
Encode(op, cond, reg_target, reg_src1, reg_src2, offset) ==
      OpNumber(op) * (2 ^ 26) + cond * (2 ^ 22) + reg_target * (2 ^ 18)
    + reg_src1 * (2 ^ 14) + reg_src2 * (2 ^ 10) + (offset % (2 ^ 10))

\* decode raises on a word whose operation field names no OpCode
Decodable(word) == \E op \in OpCodes : OpNumber(op) = BitField(word, 26, 5)

decode(word) ==
    [op         |-> CHOOSE op \in OpCodes : OpNumber(op) = BitField(word, 26, 5),
     cond       |-> BitField(word, 22, 4),
     reg_target |-> BitField(word, 18, 4),
     reg_src1   |-> BitField(word, 14, 4),
     reg_src2   |-> BitField(word, 10, 4),
     offset     |-> BitFieldSigned(word, 0, 10)]

-----------------------------------------------------------------------------
(* memory.Memory and register.Register / register.ZeroRegister *)

Addresses == 0 .. (MemSize - 1)

\* Memory.get / Memory.put raise on an address outside the memory at hand
ValidAddr(a) == a \in DOMAIN memory

MemGet(mem, a) == mem[a]

MemPut(mem, a, v) == [mem EXCEPT ![a] = v]

NumRegisters == 16

RegIndex == 0 .. (NumRegisters - 1)

\* index of the register that is the program counter
PC == 15

\* a register bank whose cells are all ordinary registers
RegisterKind_AllOrdinary(i) == "Register"

\* the class of the object CPU.__init__ puts at each index of self.registers
RegisterKind(i) == IF i = 0 THEN "ZeroRegister" ELSE "Register"

\* Register.get; ZeroRegister.get returns 0
RegGet(regs, i) == IF RegisterKind(i) = "ZeroRegister" THEN 0 ELSE regs[i]

\* Register.put; ZeroRegister.put does nothing
RegPut(regs, i, v) ==
    IF RegisterKind(i) = "ZeroRegister" THEN regs ELSE [regs EXCEPT ![i] = v]

-----------------------------------------------------------------------------
(* class ALU *)

\* what evaluating a Python expression gives: a value, or an exception
Returned(v) == [raised |-> FALSE, value |-> v]

Raised == [raised |-> TRUE, value |-> 0]

\* ALU_OPS with a division that truncates toward zero
ALU_OPS_TruncatingDiv(op, x, y) ==
    CASE op = "ADD"   -> Returned(x + y)
      [] op = "SUB"   -> Returned(x - y)
      [] op = "MUL"   -> Returned(x * y)
      [] op = "DIV"   -> IF y = 0 THEN Raised
                         ELSE IF (x < 0) = (y < 0) THEN Returned(x \div y)
                         ELSE Returned(-((-x) \div y))
      [] op = "LOAD"  -> Returned(x + y)
      [] op = "STORE" -> Returned(x + y)
      [] op = "HALT"  -> Returned(0)
      [] OTHER        -> Raised

\* ALU.ALU_OPS[op](x, y); a key that is no operation raises KeyError, and
\* Python's x // y raises ZeroDivisionError on y = 0 and floors otherwise
ALU_OPS(op, x, y) ==
    CASE op = "ADD"   -> Returned(x + y)
      [] op = "SUB"   -> Returned(x - y)
      [] op = "MUL"   -> Returned(x * y)
      [] op = "DIV"   -> IF y = 0 THEN Raised ELSE Returned(x \div y)
      [] op = "LOAD"  -> Returned(x + y)
      [] op = "STORE" -> Returned(x + y)
      [] op = "HALT"  -> Returned(0)
      [] OTHER        -> Raised

\* exec without its try / except: the exception leaves exec
exec_NoExcept(op, in1, in2) ==
    LET r == ALU_OPS(op, in1, in2)
    IN  IF r.raised THEN Raised
        ELSE IF r.value < 0 THEN Returned(<<r.value, CondFlag_M>>)
        ELSE IF r.value = 0 THEN Returned(<<r.value, CondFlag_Z>>)
        ELSE Returned(<<r.value, CondFlag_P>>)

\* exec with no flag for a zero result
exec_ZeroHasNoFlag(op, in1, in2) ==
    LET r == ALU_OPS(op, in1, in2)
    IN  IF r.raised THEN Returned(<<0, CondFlag_V>>)
        ELSE IF r.value < 0 THEN Returned(<<r.value, CondFlag_M>>)
        ELSE IF r.value = 0 THEN Returned(<<r.value, CondFlag_NEVER>>)
        ELSE Returned(<<r.value, CondFlag_P>>)

\* exec with a fault reported as an ordinary zero result
exec_FaultIsZero(op, in1, in2) ==
    LET r == ALU_OPS(op, in1, in2)
    IN  IF r.raised THEN Returned(<<0, CondFlag_Z>>)
        ELSE IF r.value < 0 THEN Returned(<<r.value, CondFlag_M>>)
        ELSE IF r.value = 0 THEN Returned(<<r.value, CondFlag_Z>>)
        ELSE Returned(<<r.value, CondFlag_P>>)

\* ALU.exec: it returns <<result, flag>>; the bare except maps any exception
\* raised inside the try block to <<0, V>>
exec(op, in1, in2) ==
    LET r == ALU_OPS(op, in1, in2)
    IN  IF r.raised THEN Returned(<<0, CondFlag_V>>)
        ELSE IF r.value < 0 THEN Returned(<<r.value, CondFlag_M>>)
        ELSE IF r.value = 0 THEN Returned(<<r.value, CondFlag_Z>>)
        ELSE Returned(<<r.value, CondFlag_P>>)

-----------------------------------------------------------------------------
(* class CPUStep, class CPU *)

\* the CPU's own fields together with the memory it is connected to
CPUState == [registers |-> registers, memory |-> memory,
             condition |-> condition, halted |-> halted]

\* CPUStep.__init__; subject is the CPU as a listener finds it on delivery
CPUStep(subject, pc_addr, instr_word, instr) ==
    [subject |-> subject, pc_addr |-> pc_addr,
     instr_word |-> instr_word, instr |-> instr]

\* MVCListenable.notify_all: the event is delivered to the listeners
notify_all(delivered, event) == Append(delivered, event)

\* how a call of step() ends: the state it leaves, the events it published,
\* and whether an exception left it
Completed(s, events) == [cpu |-> s, published |-> events, raised |-> FALSE]

Aborted(s, events) == [cpu |-> s, published |-> events, raised |-> TRUE]

\* the predicate taken as satisfied only when the mask equals the flag
pre_satisfied_Equal(s, instr) == IF s.condition = instr.cond THEN instr.cond ELSE 0

\* self.condition & instr.cond
pre_satisfied(s, instr) == FlagAnd(s.condition, instr.cond)

\* counter += 1; self.pc.put(counter)
AdvancePC(s, counter) == [s EXCEPT !.registers = RegPut(@, PC, counter + 1)]

IsArith(op) == op \in {"ADD", "SUB", "MUL", "DIV"}

\* ApplyEffect with HALT leaving the halted status alone
ApplyEffect_HaltIgnored(s, instr, result_val, cond_code, events) ==
    CASE instr.op = "STORE" ->
            IF ValidAddr(result_val)
            THEN Completed([s EXCEPT !.memory =
                     MemPut(@, result_val, RegGet(s.registers, instr.reg_target))],
                     events)
            ELSE Aborted(s, events)
      [] instr.op = "LOAD" ->
            IF ValidAddr(result_val)
            THEN Completed([s EXCEPT !.registers =
                     RegPut(@, instr.reg_target, MemGet(s.memory, result_val))],
                     events)
            ELSE Aborted(s, events)
      [] instr.op = "HALT" ->
            Completed(s, events)
      [] IsArith(instr.op) ->
            Completed([s EXCEPT !.registers = RegPut(@, instr.reg_target, result_val),
                                !.condition = cond_code], events)

\* ApplyEffect with the flag set by every executed instruction
ApplyEffect_FlagAlways(s, instr, result_val, cond_code, events) ==
    CASE instr.op = "STORE" ->
            IF ValidAddr(result_val)
            THEN Completed([s EXCEPT !.memory =
                     MemPut(@, result_val, RegGet(s.registers, instr.reg_target)),
                     !.condition = cond_code], events)
            ELSE Aborted(s, events)
      [] instr.op = "LOAD" ->
            IF ValidAddr(result_val)
            THEN Completed([s EXCEPT !.registers =
                     RegPut(@, instr.reg_target, MemGet(s.memory, result_val)),
                     !.condition = cond_code], events)
            ELSE Aborted(s, events)
      [] instr.op = "HALT" ->
            Completed([s EXCEPT !.halted = TRUE, !.condition = cond_code], events)
      [] IsArith(instr.op) ->
            Completed([s EXCEPT !.registers = RegPut(@, instr.reg_target, result_val),
                                !.condition = cond_code], events)

\* ApplyEffect with STORE writing the ALU result instead of the target register
ApplyEffect_StoreResult(s, instr, result_val, cond_code, events) ==
    CASE instr.op = "STORE" ->
            IF ValidAddr(result_val)
            THEN Completed([s EXCEPT !.memory =
                     MemPut(@, result_val, result_val)],
                     events)
            ELSE Aborted(s, events)
      [] instr.op = "LOAD" ->
            IF ValidAddr(result_val)
            THEN Completed([s EXCEPT !.registers =
                     RegPut(@, instr.reg_target, MemGet(s.memory, result_val))],
                     events)
            ELSE Aborted(s, events)
      [] instr.op = "HALT" ->
            Completed([s EXCEPT !.halted = TRUE], events)
      [] IsArith(instr.op) ->
            Completed([s EXCEPT !.registers = RegPut(@, instr.reg_target, result_val),
                                !.condition = cond_code], events)

\* ApplyEffect with the flag set only when the target register took the result
ApplyEffect_FlagFollowsWrite(s, instr, result_val, cond_code, events) ==
    CASE instr.op = "STORE" ->
            IF ValidAddr(result_val)
            THEN Completed([s EXCEPT !.memory =
                     MemPut(@, result_val, RegGet(s.registers, instr.reg_target))],
                     events)
            ELSE Aborted(s, events)
      [] instr.op = "LOAD" ->
            IF ValidAddr(result_val)
            THEN Completed([s EXCEPT !.registers =
                     RegPut(@, instr.reg_target, MemGet(s.memory, result_val))],
                     events)
            ELSE Aborted(s, events)
      [] instr.op = "HALT" ->
            Completed([s EXCEPT !.halted = TRUE], events)
      [] IsArith(instr.op) ->
            Completed([s EXCEPT !.registers = RegPut(@, instr.reg_target, result_val),
                                !.condition =
                                    IF RegGet(RegPut(s.registers, instr.reg_target,
                                                     result_val),
                                              instr.reg_target) = result_val
                                    THEN cond_code ELSE @], events)

\* the four "if instr.op == ..." statements that end the satisfied branch
ApplyEffect(s, instr, result_val, cond_code, events) ==
    CASE instr.op = "STORE" ->
            IF ValidAddr(result_val)
            THEN Completed([s EXCEPT !.memory =
                     MemPut(@, result_val, RegGet(s.registers, instr.reg_target))],
                     events)
            ELSE Aborted(s, events)
      [] instr.op = "LOAD" ->
            IF ValidAddr(result_val)
            THEN Completed([s EXCEPT !.registers =
                     RegPut(@, instr.reg_target, MemGet(s.memory, result_val))],
                     events)
            ELSE Aborted(s, events)
      [] instr.op = "HALT" ->
            Completed([s EXCEPT !.halted = TRUE], events)
      [] IsArith(instr.op) ->
            Completed([s EXCEPT !.registers = RegPut(@, instr.reg_target, result_val),
                                !.condition = cond_code], events)

\* Execute with the program counter advanced in the satisfied branch only
Execute_SkipKeepsPC(s, counter, instr, events) ==
    IF pre_satisfied(s, instr) # 0
    THEN LET left_op  == RegGet(s.registers, instr.reg_src1)
             right_op == RegGet(s.registers, instr.reg_src2) + instr.offset
             r        == exec(instr.op, left_op, right_op).value
         IN  ApplyEffect(AdvancePC(s, counter), instr, r[1], r[2], events)
    ELSE Completed(s, events)

\* Execute with HALT taking effect whether or not the predicate is satisfied
Execute_HaltUnconditional(s, counter, instr, events) ==
    IF pre_satisfied(s, instr) # 0
    THEN LET left_op  == RegGet(s.registers, instr.reg_src1)
             right_op == RegGet(s.registers, instr.reg_src2) + instr.offset
             r        == exec(instr.op, left_op, right_op).value
         IN  ApplyEffect(AdvancePC(s, counter), instr, r[1], r[2], events)
    ELSE Completed([AdvancePC(s, counter) EXCEPT !.halted = (instr.op = "HALT") \/ @],
                   events)

\* Execute with the right operand taken from the register alone
Execute_OffsetIgnored(s, counter, instr, events) ==
    IF pre_satisfied(s, instr) # 0
    THEN LET left_op  == RegGet(s.registers, instr.reg_src1)
             right_op == RegGet(s.registers, instr.reg_src2)
             r        == exec(instr.op, left_op, right_op).value
         IN  ApplyEffect(AdvancePC(s, counter), instr, r[1], r[2], events)
    ELSE Completed(AdvancePC(s, counter), events)

\* Execute with the source registers read after the program counter has been
\* advanced
Execute_ReadAfterAdvance(s, counter, instr, events) ==
    IF pre_satisfied(s, instr) # 0
    THEN LET adv      == AdvancePC(s, counter)
             left_op  == RegGet(adv.registers, instr.reg_src1)
             right_op == RegGet(adv.registers, instr.reg_src2) + instr.offset
             r        == exec(instr.op, left_op, right_op).value
         IN  ApplyEffect(adv, instr, r[1], r[2], events)
    ELSE Completed(AdvancePC(s, counter), events)

\* Execute with a STORE applied before the program counter is advanced
Execute_StoreBeforeAdvance(s, counter, instr, events) ==
    IF pre_satisfied(s, instr) # 0
    THEN LET left_op  == RegGet(s.registers, instr.reg_src1)
             right_op == RegGet(s.registers, instr.reg_src2) + instr.offset
             r        == exec(instr.op, left_op, right_op).value
             early    == ApplyEffect(s, instr, r[1], r[2], events)
         IN  IF instr.op = "STORE"
             THEN [early EXCEPT !.cpu = AdvancePC(@, counter)]
             ELSE ApplyEffect(AdvancePC(s, counter), instr, r[1], r[2], events)
    ELSE Completed(AdvancePC(s, counter), events)

\* Execute with the program counter advanced after the side effect
Execute_AdvanceLast(s, counter, instr, events) ==
    IF pre_satisfied(s, instr) # 0
    THEN LET left_op  == RegGet(s.registers, instr.reg_src1)
             right_op == RegGet(s.registers, instr.reg_src2) + instr.offset
             r        == exec(instr.op, left_op, right_op).value
             early    == ApplyEffect(s, instr, r[1], r[2], events)
         IN  [early EXCEPT !.cpu = AdvancePC(@, counter)]
    ELSE Completed(AdvancePC(s, counter), events)

\* the "# Execute" part of step()
Execute(s, counter, instr, events) ==
    IF pre_satisfied(s, instr) # 0
    THEN LET left_op  == RegGet(s.registers, instr.reg_src1)
             right_op == RegGet(s.registers, instr.reg_src2) + instr.offset
             r        == exec(instr.op, left_op, right_op).value
         IN  ApplyEffect(AdvancePC(s, counter), instr, r[1], r[2], events)
    ELSE Completed(AdvancePC(s, counter), events)

\* step with the event published after the instruction has been executed
step_NotifyAfterExecute(s) ==
    LET counter == RegGet(s.registers, PC)
    IN  IF ~ValidAddr(counter) THEN Aborted(s, <<>>)
        ELSE LET instr_word == MemGet(s.memory, counter)
             IN  IF ~Decodable(instr_word) THEN Aborted(s, <<>>)
                 ELSE LET instr == decode(instr_word)
                          done  == Execute(s, counter, instr, <<>>)
                      IN  [done EXCEPT !.published = notify_all(<<>>,
                               CPUStep(done.cpu, counter, instr_word, instr))]

\* CPU.step
step(s) ==
    LET counter == RegGet(s.registers, PC)
    IN  IF ~ValidAddr(counter) THEN Aborted(s, <<>>)
        ELSE LET instr_word == MemGet(s.memory, counter)
             IN  IF ~Decodable(instr_word) THEN Aborted(s, <<>>)
                 ELSE LET instr  == decode(instr_word)
                          events == notify_all(<<>>,
                                       CPUStep(s, counter, instr_word, instr))
                      IN  Execute(s, counter, instr, events)

-----------------------------------------------------------------------------
(* The programs and calls explored *)

\* register indices, condition masks and offsets the explored programs use
ProgRegs == {0, 1, PC}

ProgConds == {CondFlag_ALWAYS, CondFlag_M, CondFlag_P, CondFlag_V, CondFlag_NEVER}

ProgOffsets == {-1, 0, 2}

\* source-register pairs of the explored instructions
ProgSources == {<<0, 0>>, <<1, 1>>, <<PC, 0>>, <<0, PC>>}

\* a word whose operation field (4) names no OpCode
BadWord == 4 * (2 ^ 26)

\* the instruction under test, at address 1: every operation, target and
\* offset, under every condition mask with both sources r0, and under the
\* masks ALWAYS and M with every pair of sources
TestWords ==
    { Encode(op, c, t, 0, 0, off) :
        op \in OpCodes, c \in ProgConds, t \in ProgRegs, off \in ProgOffsets }
    \cup
    { Encode(op, c, t, ss[1], ss[2], off) :
        op \in OpCodes, c \in {CondFlag_ALWAYS, CondFlag_M}, t \in ProgRegs,
        ss \in ProgSources, off \in ProgOffsets }
    \cup {BadWord}

\* the instruction before it, at address 0: it leaves the flag M, P or V, or
\* loads a word and leaves the flag as it was
PreludeWords ==
    { Encode("ADD", CondFlag_ALWAYS, 1, 0, 0, -1),
      Encode("ADD", CondFlag_ALWAYS, 1, 0, 0, 2),
      Encode("DIV", CondFlag_ALWAYS, 1, 0, 0, 0),
      Encode("LOAD", CondFlag_ALWAYS, 1, 0, 0, 2) }

HaltWord == Encode("HALT", CondFlag_ALWAYS, 0, 0, 0, 0)

\* the memory images the CPU is started on
Programs ==
    { [a \in Addresses |->
          IF a = 0 THEN w0 ELSE IF a = 1 THEN w1 ELSE IF a = 2 THEN HaltWord ELSE 0] :
        w0 \in PreludeWords, w1 \in TestWords }

\* entry points given to run(): the first two instructions, and one past the
\* memory
EntryPoints == {0, 1, MemSize}

\* TLC's integers have 32 bits: products are formed of operands below 2^15,
\* and arithmetic results are explored up to MaxVal
InRange(v) == (-MaxVal) <= v /\ v <= MaxVal

Small(v) == (-(2 ^ 15)) < v /\ v < 2 ^ 15

Explored(s) ==
    LET counter == RegGet(s.registers, PC)
    IN  (ValidAddr(counter) /\ Decodable(MemGet(s.memory, counter))) =>
            LET instr == decode(MemGet(s.memory, counter))
                left  == RegGet(s.registers, instr.reg_src1)
                right == RegGet(s.registers, instr.reg_src2) + instr.offset
            IN  (IsArith(instr.op) /\ pre_satisfied(s, instr) # 0) =>
                    /\ Small(left)
                    /\ Small(right)
                    /\ InRange(exec(instr.op, left, right).value[1])

-----------------------------------------------------------------------------
(* The state machine *)

NoCall == [op |-> "none", in1 |-> 0, in2 |-> 0]

\* CPU.__init__ on a memory holding one of the programs
Init ==
    /\ registers = [i \in RegIndex |-> 0]
    /\ memory \in Programs
    /\ condition = CondFlag_ALWAYS
    /\ halted = FALSE
    /\ published = <<>>
    /\ ctl = "idle"
    /\ from_addr = -1
    /\ single_step = FALSE
    /\ step_count = 0
    /\ prompt = -1
    /\ last = "init"
    /\ alu_in = NoCall
    /\ alu_out = <<>>

\* the effect of one call of step() on the variables
DoStep(r) ==
    /\ registers' = r.cpu.registers
    /\ memory' = r.cpu.memory
    /\ condition' = r.cpu.condition
    /\ halted' = r.cpu.halted
    /\ published' = r.published
    /\ last' = IF r.raised THEN "raise" ELSE "step"

\* run() that also puts the condition flag back to ALWAYS
Run_ResetsCondition(addr, ss) ==
    /\ ctl = "idle"
    /\ from_addr' = addr
    /\ single_step' = ss
    /\ halted' = FALSE
    /\ registers' = RegPut(registers, PC, addr)
    /\ condition' = CondFlag_ALWAYS
    /\ step_count' = 0
    /\ prompt' = -1
    /\ ctl' = "run"
    /\ last' = "run"
    /\ UNCHANGED <<memory, published, alu_in, alu_out>>

\* run(from_addr, single_step) up to the loop
Run(addr, ss) ==
    /\ ctl = "idle"
    /\ from_addr' = addr
    /\ single_step' = ss
    /\ halted' = FALSE
    /\ registers' = RegPut(registers, PC, addr)
    /\ step_count' = 0
    /\ prompt' = -1
    /\ ctl' = "run"
    /\ last' = "run"
    /\ UNCHANGED <<memory, condition, published, alu_in, alu_out>>

\* run() with the loop catching an error raised by step() and going on
RunStep_SwallowsFault ==
    /\ ctl = "run"
    /\ ~halted
    /\ step_count < MaxSteps
    /\ Explored(CPUState)
    /\ prompt' = IF single_step THEN step_count ELSE prompt
    /\ LET r == step(CPUState)
       IN  /\ DoStep(r)
           /\ ctl' = "run"
           /\ step_count' = step_count + 1
    /\ UNCHANGED <<from_addr, single_step, alu_in, alu_out>>

\* run(): one iteration of "while not self.halted"; in single-step mode
\* input() shows the prompt with the step number and returns when the user
\* presses enter, and then the cycle runs
RunStep ==
    /\ ctl = "run"
    /\ ~halted
    /\ step_count < MaxSteps
    /\ Explored(CPUState)
    /\ prompt' = IF single_step THEN step_count ELSE prompt
    /\ LET r == step(CPUState)
       IN  /\ DoStep(r)
           /\ ctl' = IF r.raised THEN "fault" ELSE "run"
           /\ step_count' = IF r.raised THEN step_count ELSE step_count + 1
    /\ UNCHANGED <<from_addr, single_step, alu_in, alu_out>>

\* run() with a limit on the number of cycles
RunReturn_StepLimit ==
    /\ ctl = "run"
    /\ halted \/ step_count = MaxSteps
    /\ ctl' = "idle"
    /\ from_addr' = -1
    /\ single_step' = FALSE
    /\ step_count' = 0
    /\ last' = "return"
    /\ UNCHANGED <<registers, memory, condition, halted, published,
                   prompt, alu_in, alu_out>>

\* run(): the loop condition fails and run() returns; its parameters and
\* locals go with its frame
RunReturn ==
    /\ ctl = "run"
    /\ halted
    /\ ctl' = "idle"
    /\ from_addr' = -1
    /\ single_step' = FALSE
    /\ step_count' = 0
    /\ last' = "return"
    /\ UNCHANGED <<registers, memory, condition, halted, published,
                   prompt, alu_in, alu_out>>

\* step() called on its own, outside run()
Step ==
    /\ ctl = "idle"
    /\ Explored(CPUState)
    /\ LET r == step(CPUState)
       IN  /\ DoStep(r)
           /\ ctl' = IF r.raised THEN "fault" ELSE "idle"
    /\ UNCHANGED <<from_addr, single_step, step_count, prompt, alu_in, alu_out>>

Next ==
    \/ \E addr \in EntryPoints, ss \in BOOLEAN : Run(addr, ss)
    \/ RunStep
    \/ RunReturn
    \/ Step

Spec == Init /\ [][Next]_vars

-----------------------------------------------------------------------------
(* The end-to-end scenario: a CPU is created on a memory that holds          *)
(* ADD r1,r0,r0,#5 / STORE r1,r0,r0,#100 / HALT at the addresses 0..2, and   *)
(* run(0) is its first call. What the cells 3, 100 and the last one hold     *)
(* before the run is left open.                                              *)

ScenarioWords == {0, 7, HaltWord}

ScenarioPrograms ==
    { [a \in 0 .. (ScenarioMemSize - 1) |->
          IF a = 0 THEN Encode("ADD", CondFlag_ALWAYS, 1, 0, 0, 5)
          ELSE IF a = 1 THEN Encode("STORE", CondFlag_ALWAYS, 1, 0, 0, 100)
          ELSE IF a = 2 THEN Encode("HALT", CondFlag_ALWAYS, 0, 0, 0, 0)
          ELSE IF a = 3 THEN w3
          ELSE IF a = 100 THEN w100
          ELSE IF a = ScenarioMemSize - 1 THEN wTop
          ELSE 0] :
        w3 \in ScenarioWords, w100 \in ScenarioWords, wTop \in ScenarioWords }

ScenarioInit ==
    /\ registers = [i \in RegIndex |-> 0]
    /\ memory \in ScenarioPrograms
    /\ condition = CondFlag_ALWAYS
    /\ halted = FALSE
    /\ published = <<>>
    /\ ctl = "idle"
    /\ from_addr = -1
    /\ single_step = FALSE
    /\ step_count = 0
    /\ prompt = -1
    /\ last = "init"
    /\ alu_in = NoCall
    /\ alu_out = <<>>

\* the first call on the new CPU is run(0), in either mode
ScenarioRun == last = "init" /\ \E ss \in BOOLEAN : Run(0, ss)

ScenarioNext == ScenarioRun \/ RunStep \/ RunReturn

ScenarioSpec == ScenarioInit /\ [][ScenarioNext]_vars

-----------------------------------------------------------------------------
(* ALU.exec on its own: every operation on every pair of operands of         *)
(* magnitude up to MaxOperand                                                *)

Operands == (-MaxOperand) .. MaxOperand

AluInit ==
    /\ registers = [i \in RegIndex |-> 0]
    /\ memory = [a \in Addresses |-> 0]
    /\ condition = CondFlag_ALWAYS
    /\ halted = FALSE
    /\ published = <<>>
    /\ ctl = "idle"
    /\ from_addr = -1
    /\ single_step = FALSE
    /\ step_count = 0
    /\ prompt = -1
    /\ last = "init"
    /\ alu_in \in [op : OpCodes, in1 : Operands, in2 : Operands]
    /\ alu_out = <<>>

\* the call ALU().exec(op, in1, in2) returns
ExecALU ==
    /\ alu_out = <<>>
    /\ alu_out' = <<exec(alu_in.op, alu_in.in1, alu_in.in2)>>
    /\ UNCHANGED <<alu_in, cpuVars>>

AluSpec == AluInit /\ [][ExecALU]_vars

-----------------------------------------------------------------------------
(* Reading a cycle off a step of the state machine, and off the state it    *)
(* leaves                                                                    *)

\* the address the next cycle fetches from, whether the fetch and the decoding
\* succeed, the instruction they give and whether its predicate is satisfied
PcNow == RegGet(registers, PC)

Fetchable == ValidAddr(PcNow) /\ Decodable(MemGet(memory, PcNow))

Fetched == decode(MemGet(memory, PcNow))

Satisfied == FlagAnd(condition, Fetched.cond) # 0

\* this step is a call of step(), inside run() or not; it returned normally
CycleRan == last' \in {"step", "raise"}

CycleDone == last' = "step"

OtherRegistersKept ==
    \A i \in RegIndex \ {PC} : RegGet(registers', i) = RegGet(registers, i)

\* the state was left by a call of step() that returned normally; Ev is the
\* event of that cycle, EvSatisfied whether its predicate was satisfied
AfterCycle == last = "step" /\ Len(published) = 1

Ev == published[1]

EvSatisfied == FlagAnd(Ev.subject.condition, Ev.instr.cond) # 0

-----------------------------------------------------------------------------
(* The claims *)

\* C1: a cycle whose predicate is unsatisfied (current flag AND instr.cond is
\* zero) returns normally, leaves PC at the fetch address + 1 and leaves the
\* condition flag, every register other than r15, all of memory and the halted
\* status unchanged, whatever the instruction is.
C1_UnsatisfiedCycleOnlyAdvancesPC ==
    [][ (CycleRan /\ Fetchable /\ ~Satisfied) =>
            /\ CycleDone
            /\ RegGet(registers', PC) = PcNow + 1
            /\ OtherRegistersKept
            /\ memory' = memory
            /\ condition' = condition
            /\ halted' = halted ]_vars

\* a skipped STORE whose target is r15 has run: memory is as before it
C1_Witness ==
    /\ AfterCycle
    /\ ~EvSatisfied
    /\ Ev.instr.op = "STORE"
    /\ Ev.instr.reg_target = PC
    /\ Ev.subject.condition # CondFlag_ALWAYS
    /\ memory = Ev.subject.memory
    /\ RegGet(registers, PC) = Ev.pc_addr + 1

\* C2: a cycle that executes a HALT under a satisfied predicate at fetch
\* address a leaves halted true and PC = a + 1; inside run(), the state such
\* a cycle leaves (the loop with halted true) is left only by run() returning,
\* with the CPU and the memory as that cycle left them.
C2_HaltStopsRun ==
    [][ /\ (CycleRan /\ Fetchable /\ Satisfied /\ Fetched.op = "HALT") =>
                /\ CycleDone
                /\ halted'
                /\ RegGet(registers', PC) = PcNow + 1
        /\ (ctl = "run" /\ halted) =>
                /\ last' = "return"
                /\ ctl' = "idle"
                /\ <<registers', memory', condition', halted', published'>>
                      = <<registers, memory, condition, halted, published>> ]_vars

\* run() has returned after a cycle that executed a HALT at address 2
C2_Witness ==
    /\ last = "return"
    /\ ctl = "idle"
    /\ halted
    /\ Len(published) = 1
    /\ Ev.instr.op = "HALT"
    /\ EvSatisfied
    /\ Ev.pc_addr = 2
    /\ RegGet(registers, PC) = 3

\* C3: halted changes from false to true only in a cycle that executes a HALT
\* under a satisfied predicate.
C3_OnlyExecutedHaltHalts ==
    [][ (~halted /\ halted') =>
            /\ CycleDone
            /\ Fetchable
            /\ Fetched.op = "HALT"
            /\ Satisfied ]_vars

\* a HALT has been fetched under an unsatisfied predicate and halted is false
C3_Witness ==
    /\ AfterCycle
    /\ Ev.instr.op = "HALT"
    /\ Ev.instr.cond # CondFlag_NEVER
    /\ ~EvSatisfied
    /\ ~Ev.subject.halted
    /\ ~halted

\* C4: every cycle that fetches and decodes an instruction publishes exactly
\* one CPUStep event, whose subject shows PC, the registers, memory, the
\* condition flag and halted as they were when the cycle started, and which
\* carries pc_addr = PC at cycle start, instr_word = memory[pc_addr] and the
\* decoding of that word.
C4_EventShowsStateBeforeExecution ==
    [][ (CycleRan /\ Fetchable) =>
            /\ Len(published') = 1
            /\ published'[1].subject = CPUState
            /\ published'[1].pc_addr = PcNow
            /\ published'[1].instr_word = MemGet(memory, PcNow)
            /\ published'[1].instr = decode(MemGet(memory, PcNow)) ]_vars

\* an executed arithmetic cycle changed a register and the flag, and its
\* event shows them as they were
C4_Witness ==
    /\ AfterCycle
    /\ EvSatisfied
    /\ IsArith(Ev.instr.op)
    /\ Ev.subject.registers # registers
    /\ Ev.subject.condition # condition
    /\ RegGet(Ev.subject.registers, 1) # RegGet(registers, 1)
    /\ Ev.pc_addr = RegGet(Ev.subject.registers, PC)

\* the operands of the cycle about to run, as the registers hold them when
\* it starts, and the address a LOAD or STORE computes from them
LeftNow == RegGet(registers, Fetched.reg_src1)

RightNow == RegGet(registers, Fetched.reg_src2) + Fetched.offset

AddressNow ==
    RegGet(registers, Fetched.reg_src1) + RegGet(registers, Fetched.reg_src2)
        + Fetched.offset

\* this step is a cycle that executes an instruction with operation op
Executes(op) == CycleRan /\ Fetchable /\ Satisfied /\ Fetched.op = op

\* what the target register of the cycle about to run holds once the program
\* counter has been advanced
TargetValueNow ==
    IF Fetched.reg_target = PC THEN PcNow + 1
    ELSE RegGet(registers, Fetched.reg_target)

\* an executed STORE at a valid address: memory[address] becomes the target
\* register's value, no other cell and no register other than the PC changes
StoreEffect ==
    (Executes("STORE") /\ ValidAddr(AddressNow)) =>
        /\ CycleDone
        /\ memory' = [memory EXCEPT ![AddressNow] = TargetValueNow]
        /\ OtherRegistersKept
        /\ RegGet(registers', PC) = PcNow + 1

\* C5 as stated: LOAD/STORE addressing under a satisfied predicate: the address
\* is value(reg_src1) + value(reg_src2) + offset; STORE sets memory[address]
\* to the target register's value and changes no register other than the PC;
\* LOAD sets the target register to memory[address] and changes no memory
\* cell.
C5_AsStated ==
    [][ /\ StoreEffect
        /\ (Executes("LOAD") /\ ValidAddr(AddressNow)) =>
                /\ CycleDone
                /\ RegGet(registers', Fetched.reg_target) = MemGet(memory, AddressNow)
                /\ memory' = memory ]_vars

\* C5 amended: as stated, except that a LOAD whose target is r0 leaves r0
\* reading 0: LOAD sets a target register other than r0 to memory[address],
\* and changes no memory cell.
C5_LoadStoreAddressing ==
    [][ /\ StoreEffect
        /\ (Executes("LOAD") /\ ValidAddr(AddressNow)) =>
                /\ CycleDone
                /\ RegGet(registers', Fetched.reg_target) =
                      (IF Fetched.reg_target = 0 THEN 0
                       ELSE MemGet(memory, AddressNow))
                /\ memory' = memory ]_vars

\* a STORE of r1 = 2 through the address r1 + r1 - 1 = 3 has been executed
C5_Witness ==
    /\ AfterCycle
    /\ EvSatisfied
    /\ Ev.instr.op = "STORE"
    /\ Ev.instr.reg_target = 1
    /\ Ev.instr.reg_src1 = 1
    /\ Ev.instr.reg_src2 = 1
    /\ Ev.instr.offset = -1
    /\ RegGet(Ev.subject.registers, 1) = 2
    /\ MemGet(Ev.subject.memory, 3) = 0
    /\ MemGet(memory, 3) = 2

\* C6: the condition flag changes only in a cycle that executes ADD, SUB, MUL
\* or DIV under a satisfied predicate, and such a cycle leaves it equal to the
\* flag the ALU derived from the operands; executed LOAD, STORE and HALT
\* cycles, skipped cycles and aborted cycles leave it as it was.
C6_OnlyArithmeticSetsFlag ==
    [][ /\ (condition' # condition) =>
                CycleDone /\ Fetchable /\ Satisfied /\ IsArith(Fetched.op)
        /\ (CycleRan /\ Fetchable /\ Satisfied /\ IsArith(Fetched.op)) =>
                condition' = exec(Fetched.op, LeftNow, RightNow).value[2] ]_vars

\* a LOAD from a positive address has been executed under the flag M, for
\* which the ALU derived P, and the flag is still M
C6_Witness ==
    /\ AfterCycle
    /\ EvSatisfied
    /\ Ev.instr.op = "LOAD"
    /\ Ev.instr.reg_src1 = 0
    /\ Ev.instr.reg_src2 = 0
    /\ Ev.instr.offset = 2
    /\ Ev.subject.condition = CondFlag_M
    /\ condition = CondFlag_M

\* q is a / b rounded toward negative infinity
IsFloorQuotient(q, a, b) ==
    LET rem == a - q * b
    IN  IF b > 0 THEN 0 <= rem /\ rem < b ELSE b < rem /\ rem <= 0

IsExactValue(op, v, a, b) ==
    CASE op = "ADD" -> v = a + b
      [] op = "SUB" -> v = a - b
      [] op = "MUL" -> v = a * b
      [] op = "DIV" -> IsFloorQuotient(v, a, b)

SignFlag(v) == IF v < 0 THEN CondFlag_M ELSE IF v = 0 THEN CondFlag_Z ELSE CondFlag_P

\* C7: for ADD, SUB, MUL and DIV and every pair (a, b) with b # 0, ALU.exec
\* returns the exact value a+b, a-b, a*b or floor(a/b) (rounded toward
\* negative infinity) with the flag of that value's sign: M, Z or P.
C7_ArithmeticIsExact ==
    (Len(alu_out) = 1 /\ IsArith(alu_in.op) /\ alu_in.in2 # 0) =>
        /\ ~alu_out[1].raised
        /\ IsExactValue(alu_in.op, alu_out[1].value[1], alu_in.in1, alu_in.in2)
        /\ alu_out[1].value[2] = SignFlag(alu_out[1].value[1])

\* exec(DIV, -5, 2) has returned (-3, M): the floor, not the truncation -2
C7_Witness ==
    /\ alu_in = [op |-> "DIV", in1 |-> -5, in2 |-> 2]
    /\ alu_out = <<Returned(<<-3, CondFlag_M>>)>>

\* C8: ALU.exec is total: for every operation and every pair of integers it
\* returns a pair (result, flag) and never raises; exec(DIV, a, 0) returns
\* (0, V) for every a, and V is returned for no other input.
C8_ExecIsTotal ==
    (Len(alu_out) = 1) =>
        /\ ~alu_out[1].raised
        /\ Len(alu_out[1].value) = 2
        /\ alu_out[1].value[2] \in {CondFlag_M, CondFlag_Z, CondFlag_P, CondFlag_V}
        /\ (alu_in.op = "DIV" /\ alu_in.in2 = 0) => alu_out[1].value = <<0, CondFlag_V>>
        /\ (alu_out[1].value[2] = CondFlag_V) => (alu_in.op = "DIV" /\ alu_in.in2 = 0)

\* exec(DIV, -4, 0) has returned (0, V)
C8_Witness ==
    /\ alu_in = [op |-> "DIV", in1 |-> -4, in2 |-> 0]
    /\ alu_out = <<Returned(<<0, CondFlag_V>>)>>

\* C9: run(from_addr) sets halted to false and PC to from_addr before the
\* first cycle and changes nothing else: the other registers, memory and the
\* condition flag at the first fetch are those the previous call left.
C9_RunResetsOnlyPCAndHalted ==
    [][ (last' = "run") =>
            /\ ctl' = "run"
            /\ step_count' = 0
            /\ ~halted'
            /\ RegGet(registers', PC) = from_addr'
            /\ OtherRegistersKept
            /\ memory' = memory
            /\ condition' = condition ]_vars

\* a run is about to fetch its first instruction at address 1, after a cycle
\* that executed a HALT, with the flag M and r1 = -1 left by what ran before
C9_Witness ==
    /\ last = "run"
    /\ ctl = "run"
    /\ step_count = 0
    /\ Len(published) = 1
    /\ Ev.instr.op = "HALT"
    /\ EvSatisfied
    /\ Ev.subject.condition = CondFlag_M
    /\ condition = CondFlag_M
    /\ RegGet(registers, 1) = -1
    /\ from_addr = 1
    /\ RegGet(registers, PC) = 1
    /\ ~halted

\* C10: run() terminates solely via the halted flag: it executes no cycle
\* while halted is true, and it returns only from its loop with halted true,
\* that is right after a cycle of this run that executed a HALT under a
\* satisfied predicate; a run in which no such cycle happens does not return.
C10_RunEndsOnlyByHalted ==
    [][ /\ (ctl = "run" /\ CycleRan) => ~halted
        /\ (last' = "return") =>
                /\ ctl = "run"
                /\ halted
                /\ halted'
                /\ step_count >= 1
                /\ AfterCycle
                /\ Ev.instr.op = "HALT"
                /\ EvSatisfied ]_vars

\* a run has executed MaxSteps cycles, the latest one no HALT, and is still
\* in its loop
C10_Witness ==
    /\ ctl = "run"
    /\ step_count = MaxSteps
    /\ ~halted
    /\ AfterCycle
    /\ Ev.instr.op # "HALT"

\* C11: in every state reachable by any sequence of step() and run() calls,
\* register r0 reads 0, also after executed ADD/SUB/MUL/DIV or LOAD
\* instructions whose target register is r0.
C11_ZeroRegisterReadsZero == RegGet(registers, 0) = 0

\* an ADD with target r0 and the result 2 has been executed, and r0 reads 0
C11_Witness ==
    /\ AfterCycle
    /\ EvSatisfied
    /\ Ev.instr.op = "ADD"
    /\ Ev.instr.reg_target = 0
    /\ Ev.instr.reg_src1 = 0
    /\ Ev.instr.reg_src2 = 0
    /\ Ev.instr.offset = 2
    /\ condition = CondFlag_P
    /\ RegGet(registers, 0) = 0

\* C12: on a freshly created CPU with the program ADD r1,r0,r0,#5 /
\* STORE r1,r0,r0,#100 / HALT at the addresses 0..2, run(0) goes on until it
\* has run exactly three cycles, and then leaves its loop and returns with
\* memory[100] = 5, halted true and PC = 3; no cycle raises.
C12_ScenarioStoresFive ==
    /\ ctl # "fault"
    /\ (ctl = "run" /\ ~halted) => (step_count < 3 /\ ENABLED RunStep)
    /\ (ctl = "run" /\ halted) =>
            /\ step_count = 3
            /\ ENABLED RunReturn
            /\ MemGet(memory, 100) = 5
            /\ RegGet(registers, PC) = 3
    /\ (last = "return") =>
            /\ ctl = "idle"
            /\ halted
            /\ MemGet(memory, 100) = 5
            /\ RegGet(registers, PC) = 3

\* run(0) has returned on a memory whose cell 100 held 7 before the run
C12_Witness ==
    /\ last = "return"
    /\ halted
    /\ Ev.instr.op = "HALT"
    /\ Ev.pc_addr = 2
    /\ MemGet(Ev.subject.memory, 100) = 5
    /\ MemGet(memory, 100) = 5
    /\ MemGet(memory, 3) = 7
    /\ RegGet(registers, 1) = 5
    /\ RegGet(registers, PC) = 3

\* what a skipped cycle does: the program counter moves on and nothing else
\* changes
SkipEffect ==
    /\ CycleDone
    /\ RegGet(registers', PC) = PcNow + 1
    /\ OtherRegistersKept
    /\ memory' = memory
    /\ condition' = condition
    /\ halted' = halted

\* the registers once the program counter has been advanced
AdvancedNow == RegPut(registers, PC, PcNow + 1)

\* the full effect of the instruction about to run, when it is executed
FullEffect ==
    LET res == exec(Fetched.op, LeftNow, RightNow).value
    IN  CASE IsArith(Fetched.op) ->
                /\ CycleDone
                /\ registers' = RegPut(AdvancedNow, Fetched.reg_target, res[1])
                /\ condition' = res[2]
                /\ memory' = memory
                /\ halted' = halted
          [] Fetched.op = "HALT" ->
                /\ CycleDone
                /\ registers' = AdvancedNow
                /\ halted'
                /\ memory' = memory
                /\ condition' = condition
          [] Fetched.op = "STORE" ->
                IF ValidAddr(AddressNow)
                THEN /\ CycleDone
                     /\ registers' = AdvancedNow
                     /\ memory' = [memory EXCEPT ![AddressNow] =
                                      RegGet(AdvancedNow, Fetched.reg_target)]
                     /\ condition' = condition
                     /\ halted' = halted
                ELSE last' = "raise"
          [] Fetched.op = "LOAD" ->
                IF ValidAddr(AddressNow)
                THEN /\ CycleDone
                     /\ registers' = RegPut(AdvancedNow, Fetched.reg_target,
                                            MemGet(memory, AddressNow))
                     /\ memory' = memory
                     /\ condition' = condition
                     /\ halted' = halted
                ELSE last' = "raise"

\* C13: an executed ADD whose result is negative leaves the condition flag M;
\* while the flag is M, a fetched instruction whose mask contains M has its
\* full effect and one whose mask is P is skipped with only the PC advanced
\* by 1; the flag stays M until another arithmetic instruction is executed.
C13_NegativeResultGatesExecution ==
    [][ /\ (Executes("ADD") /\ LeftNow + RightNow < 0) => condition' = CondFlag_M
        /\ (CycleRan /\ Fetchable /\ condition = CondFlag_M
                /\ FlagBit(Fetched.cond, 0) = 1) => FullEffect
        /\ (CycleRan /\ Fetchable /\ condition = CondFlag_M
                /\ Fetched.cond = CondFlag_P) => SkipEffect
        /\ (condition = CondFlag_M /\ condition' # CondFlag_M) =>
                /\ CycleDone
                /\ Fetchable
                /\ IsArith(Fetched.op)
                /\ FlagBit(Fetched.cond, 0) = 1 ]_vars

\* run(0) has executed ADD r1,r0,r0,#-1 and has then skipped an instruction
\* whose mask is P: the flag is M and only the PC has moved
C13_Witness ==
    /\ AfterCycle
    /\ ctl = "run"
    /\ from_addr = 0
    /\ step_count = 2
    /\ MemGet(memory, 0) = Encode("ADD", CondFlag_ALWAYS, 1, 0, 0, -1)
    /\ Ev.pc_addr = 1
    /\ Ev.instr.cond = CondFlag_P
    /\ Ev.subject.condition = CondFlag_M
    /\ RegGet(Ev.subject.registers, 1) = -1
    /\ condition = CondFlag_M
    /\ RegGet(registers, 1) = -1
    /\ RegGet(registers, PC) = 2
    /\ memory = Ev.subject.memory

\* the instruction about to run reads r15: as a source register, or as the
\* target register of a STORE
ReadsPC ==
    \/ Fetched.reg_src1 = PC
    \/ Fetched.reg_src2 = PC
    \/ (Fetched.op = "STORE" /\ Fetched.reg_target = PC)

\* what a read of register i would give if every read of r15 gave the fetch
\* address + 1
SeenAfterAdvance(i) == IF i = PC THEN PcNow + 1 ELSE RegGet(registers, i)

AddressAfterAdvance ==
    SeenAfterAdvance(Fetched.reg_src1) + SeenAfterAdvance(Fetched.reg_src2)
        + Fetched.offset

\* C14 as stated: in a satisfied cycle a STORE, LOAD or HALT that references
\* r15 (as source-register-1, as source-register-2 or as the STORE's target)
\* sees fetch address + 1 at every such read of r15: the memory access is made
\* at the address computed from fetch address + 1.
C14_AsStated ==
    [][ /\ (Executes("STORE") /\ ReadsPC /\ ValidAddr(AddressAfterAdvance)) =>
                /\ CycleDone
                /\ memory' = [memory EXCEPT ![AddressAfterAdvance] =
                                 SeenAfterAdvance(Fetched.reg_target)]
        /\ (Executes("LOAD") /\ ReadsPC /\ ValidAddr(AddressAfterAdvance)) =>
                /\ CycleDone
                /\ registers' = RegPut(AdvancedNow, Fetched.reg_target,
                                       MemGet(memory, AddressAfterAdvance))
        /\ (Executes("HALT") /\ ReadsPC) =>
                /\ CycleDone
                /\ registers' = AdvancedNow
                /\ halted' ]_vars

\* C14, amended: in a satisfied cycle a STORE, LOAD or HALT reads its source
\* registers before the program counter is advanced, so a source naming r15
\* gives the fetch address; only the STORE's read of its target register
\* comes after the advance, so a STORE whose target is r15 sees fetch
\* address + 1.
C14_SourcesSeeFetchAddress ==
    [][ /\ (Executes("STORE") /\ ReadsPC /\ ValidAddr(AddressNow)) =>
                /\ CycleDone
                /\ memory' = [memory EXCEPT ![AddressNow] =
                                 SeenAfterAdvance(Fetched.reg_target)]
        /\ (Executes("LOAD") /\ ReadsPC /\ ValidAddr(AddressNow)) =>
                /\ CycleDone
                /\ registers' = RegPut(AdvancedNow, Fetched.reg_target,
                                       MemGet(memory, AddressNow))
        /\ (Executes("HALT") /\ ReadsPC) =>
                /\ CycleDone
                /\ registers' = AdvancedNow
                /\ halted' ]_vars

\* LOAD r1,r15,r0,#0 fetched at address 1 has loaded the word at address 1,
\* which is the instruction itself, and not the word at address 2
C14_Witness ==
    /\ AfterCycle
    /\ EvSatisfied
    /\ Ev.pc_addr = 1
    /\ Ev.instr.op = "LOAD"
    /\ Ev.instr.reg_target = 1
    /\ Ev.instr.reg_src1 = PC
    /\ Ev.instr.reg_src2 = 0
    /\ Ev.instr.offset = 0
    /\ RegGet(registers, 1) = Ev.instr_word
    /\ RegGet(registers, 1) # MemGet(memory, 2)
    /\ RegGet(registers, PC) = 2

\* C15: the PC advance precedes the STORE side effect: an executed STORE
\* fetched at address a writes the value of its target register into memory
\* at the computed address, whatever left, right and the ALU result are, and
\* when the target register is r15 the value written is a + 1, not a.
C15_StoreWritesAdvancedPC ==
    [][ (Executes("STORE") /\ ValidAddr(AddressNow)) =>
            /\ CycleDone
            /\ MemGet(memory', AddressNow) = RegGet(registers', Fetched.reg_target)
            /\ Fetched.reg_target # PC =>
                   MemGet(memory', AddressNow) = RegGet(registers, Fetched.reg_target)
            /\ Fetched.reg_target = PC =>
                   /\ MemGet(memory', AddressNow) = PcNow + 1
                   /\ MemGet(memory', AddressNow) # PcNow ]_vars

\* STORE r15,r0,r0,#0 fetched at address 1 has written 2 into memory[0]: not
\* the fetch address 1, and not left, right or the result, which are all 0
C15_Witness ==
    /\ AfterCycle
    /\ EvSatisfied
    /\ Ev.pc_addr = 1
    /\ Ev.instr.op = "STORE"
    /\ Ev.instr.reg_target = PC
    /\ Ev.instr.reg_src1 = 0
    /\ Ev.instr.reg_src2 = 0
    /\ Ev.instr.offset = 0
    /\ MemGet(Ev.subject.memory, 0) # 2
    /\ MemGet(memory, 0) = 2
    /\ RegGet(registers, PC) = 2

\* the call of step() ends by raising, the error leaves run() as well, and
\* the halted status is as it was
Faulted ==
    /\ last' = "raise"
    /\ ctl' = "fault"
    /\ halted' = halted
    /\ (ctl = "run") => ~halted'

\* C16: an addressing fault is fatal: when the fetch at an invalid PC address
\* fails, or the memory access of an executed LOAD or STORE at an invalid
\* computed address fails, the error propagates out of step() and run(),
\* halted stays false, and no further cycle (nor any other step) is taken
\* afterwards.
C16_AddressingFaultIsFatal ==
    [][ /\ (CycleRan /\ ~ValidAddr(PcNow)) => Faulted
        /\ ((Executes("LOAD") \/ Executes("STORE")) /\ ~ValidAddr(AddressNow))
                => Faulted
        /\ ctl # "fault" ]_vars

\* run(0) has executed ADD r1,r0,r0,#2 and then a STORE to address
\* r1 + r1 + 2 = 6, which is outside memory: the run is over with an error,
\* halted is false, and the store changed no memory cell
C16_Witness ==
    /\ last = "raise"
    /\ ctl = "fault"
    /\ ~halted
    /\ from_addr = 0
    /\ step_count = 1
    /\ Len(published) = 1
    /\ Ev.pc_addr = 1
    /\ Ev.instr.op = "STORE"
    /\ Ev.instr.reg_src1 = 1
    /\ Ev.instr.reg_src2 = 1
    /\ Ev.instr.offset = 2
    /\ RegGet(Ev.subject.registers, 1) = 2
    /\ ~ValidAddr(6)
    /\ memory = Ev.subject.memory

\* this step executes a DIV whose right operand is 0
DividesByZero == Executes("DIV") /\ RightNow = 0

\* while the flag is V, an instruction whose mask does not contain V is
\* skipped
OnlyMasksWithVExecute ==
    (CycleRan /\ Fetchable /\ condition = CondFlag_V
        /\ FlagBit(Fetched.cond, 3) = 0) => SkipEffect

\* C17 as stated: an executed DIV whose right operand value(reg_src2) + offset
\* is 0 writes 0 into the target register, sets the condition flag to V,
\* advances PC by 1 and leaves halted unchanged, and run() continues;
\* afterwards an instruction is executed only if its mask contains V.
C17_AsStated ==
    [][ /\ DividesByZero =>
                /\ CycleDone
                /\ RegGet(registers', Fetched.reg_target) = 0
                /\ condition' = CondFlag_V
                /\ RegGet(registers', PC) = PcNow + 1
                /\ halted' = halted
                /\ ctl' = ctl
        /\ OnlyMasksWithVExecute ]_vars

\* C17, amended: an executed DIV whose right operand is 0 never aborts: it
\* writes 0 into the target register, sets the condition flag to V and leaves
\* halted unchanged; PC is the fetch address + 1 unless the target register
\* is r15, where the 0 written is the new PC; run() continues with the next
\* cycle, and afterwards an instruction is executed only if its mask contains
\* V.
C17_DivisionByZeroGivesV ==
    [][ /\ DividesByZero =>
                /\ CycleDone
                /\ registers' = RegPut(AdvancedNow, Fetched.reg_target, 0)
                /\ RegGet(registers', Fetched.reg_target) = 0
                /\ condition' = CondFlag_V
                /\ RegGet(registers', PC) =
                       IF Fetched.reg_target = PC THEN 0 ELSE PcNow + 1
                /\ halted' = halted
                /\ memory' = memory
                /\ ctl' = ctl
                /\ (ctl = "run") => ~halted'
        /\ OnlyMasksWithVExecute ]_vars

\* an earlier run left 2 in r1; run(0) has now executed DIV r1,r0,r0,#0:
\* r1 is 0, the flag is V, the PC is 1 and the run goes on
C17_Witness ==
    /\ AfterCycle
    /\ EvSatisfied
    /\ ctl = "run"
    /\ ~halted
    /\ from_addr = 0
    /\ step_count = 1
    /\ Ev.pc_addr = 0
    /\ Ev.instr.op = "DIV"
    /\ Ev.instr.reg_target = 1
    /\ Ev.instr.reg_src2 = 0
    /\ Ev.instr.offset = 0
    /\ RegGet(Ev.subject.registers, 1) = 2
    /\ RegGet(registers, 1) = 0
    /\ condition = CondFlag_V
    /\ RegGet(registers, PC) = 1
    /\ ENABLED RunStep

\* C18: writing r15 overrides the increment: after an executed ADD/SUB/MUL/DIV
\* with target r15 the PC is the ALU result, after an executed LOAD with
\* target r15 it is the loaded memory word; source operands naming r15 are
\* read before the advance, so ADD r15,r0,r15,offset=k fetched at address a
\* leaves PC = a + k; after every executed instruction whose target is not
\* r15, and after STORE and HALT always, the PC is a + 1.
C18_WritingPCOverridesIncrement ==
    [][ /\ (CycleRan /\ Fetchable /\ Satisfied /\ IsArith(Fetched.op)
                /\ Fetched.reg_target = PC) =>
                /\ CycleDone
                /\ RegGet(registers', PC) =
                       exec(Fetched.op, LeftNow, RightNow).value[1]
        /\ (Executes("LOAD") /\ Fetched.reg_target = PC /\ ValidAddr(AddressNow)) =>
                /\ CycleDone
                /\ RegGet(registers', PC) = MemGet(memory, AddressNow)
        /\ (Executes("ADD") /\ Fetched.reg_target = PC /\ Fetched.reg_src1 = 0
                /\ Fetched.reg_src2 = PC) =>
                /\ CycleDone
                /\ RegGet(registers', PC) = PcNow + Fetched.offset
        /\ (CycleDone /\ Fetchable /\ Satisfied
                /\ (Fetched.reg_target # PC \/ Fetched.op \in {"STORE", "HALT"})) =>
                RegGet(registers', PC) = PcNow + 1 ]_vars

\* ADD r15,r0,r15,#2 fetched at address 1 has left the PC at 1 + 2 = 3, not
\* at 2 and not at (1 + 1) + 2
C18_Witness ==
    /\ AfterCycle
    /\ EvSatisfied
    /\ Ev.pc_addr = 1
    /\ Ev.instr.op = "ADD"
    /\ Ev.instr.reg_target = PC
    /\ Ev.instr.reg_src1 = 0
    /\ Ev.instr.reg_src2 = PC
    /\ Ev.instr.offset = 2
    /\ RegGet(Ev.subject.registers, PC) = 1
    /\ RegGet(registers, PC) = 3

\* C19: an executed ADD/SUB/MUL/DIV whose target register is r0 discards its
\* result: r0 still reads 0 and the result reaches no other register and no
\* memory cell (the registers are as the PC advance alone leaves them); the
\* condition flag is still set to the flag derived from the discarded result,
\* so it need not describe a value held in a register.
C19_ResultDiscardedFlagKept ==
    [][ (CycleRan /\ Fetchable /\ Satisfied /\ IsArith(Fetched.op)
            /\ Fetched.reg_target = 0) =>
            /\ CycleDone
            /\ RegGet(registers', 0) = 0
            /\ registers' = AdvancedNow
            /\ OtherRegistersKept
            /\ memory' = memory
            /\ halted' = halted
            /\ condition' = exec(Fetched.op, LeftNow, RightNow).value[2] ]_vars

\* ADD r0,r0,r0,#-1 has been executed at address 1: the flag is M for the
\* result -1, and no register holds a negative value
C19_Witness ==
    /\ AfterCycle
    /\ EvSatisfied
    /\ Ev.pc_addr = 1
    /\ Ev.instr.op = "ADD"
    /\ Ev.instr.reg_target = 0
    /\ Ev.instr.reg_src1 = 0
    /\ Ev.instr.reg_src2 = 0
    /\ Ev.instr.offset = -1
    /\ Ev.subject.condition # CondFlag_M
    /\ condition = CondFlag_M
    /\ \A i \in RegIndex : RegGet(registers, i) >= 0
    /\ memory = Ev.subject.memory

\* the values the condition flag takes: ALWAYS or exactly one of M, Z, P, V
SingleFlags == {CondFlag_M, CondFlag_Z, CondFlag_P, CondFlag_V}

FlagIsWellFormed(f) == f = CondFlag_ALWAYS \/ f \in SingleFlags

\* C20: the condition flag is always ALWAYS or exactly one of M, Z, P, V and
\* never the empty flag; it leaves ALWAYS exactly when an arithmetic
\* instruction is executed and never returns to ALWAYS, not even when run()
\* is called again; an instruction whose mask is ALWAYS is therefore executed
\* in every cycle that fetches it.
C20_FlagIsAlwaysOrOneSign ==
    [][ /\ FlagIsWellFormed(condition)
        /\ FlagIsWellFormed(condition')
        /\ condition # CondFlag_NEVER
        /\ condition' # CondFlag_NEVER
        /\ (condition # CondFlag_ALWAYS) => (condition' # CondFlag_ALWAYS)
        /\ (CycleRan /\ Fetchable /\ Satisfied /\ IsArith(Fetched.op)) =>
                condition' \in SingleFlags
        /\ (condition = CondFlag_ALWAYS /\ condition' # CondFlag_ALWAYS) =>
                (CycleDone /\ Fetchable /\ Satisfied /\ IsArith(Fetched.op))
        /\ (CycleRan /\ Fetchable /\ Fetched.cond = CondFlag_ALWAYS) =>
                (Satisfied /\ FullEffect) ]_vars

\* a cycle outside run() left the flag V; run(1) was then called, found the
\* flag still V, and its first cycle has executed ADD r1,r0,r0,#2 with mask
\* ALWAYS, which left the flag P
C20_Witness ==
    /\ AfterCycle
    /\ ctl = "run"
    /\ from_addr = 1
    /\ step_count = 1
    /\ Ev.pc_addr = 1
    /\ Ev.subject.condition = CondFlag_V
    /\ Ev.instr.cond = CondFlag_ALWAYS
    /\ Ev.instr.op = "ADD"
    /\ Ev.instr.reg_target = 1
    /\ Ev.instr.reg_src1 = 0
    /\ Ev.instr.reg_src2 = 0
    /\ Ev.instr.offset = 2
    /\ RegGet(registers, 1) = 2
    /\ condition = CondFlag_P

=============================================================================
